---- MODULE Spec2Model ----
(***************************************************************************)
(* Model of src/index.ts (class GooglePhotosSync): one run of sync(), i.e. *)
(* authentication, the paginated listing loop of fetchMediaItems, the two  *)
(* phases of downloadMedia and displaySummary.  The remote library, the    *)
(* HTTP outcomes and the file system are the environment: every request,   *)
(* unlink and write can succeed or fail.  Execution is sequential; a step  *)
(* of the model is the code between two awaits (or one loop iteration).    *)
(***************************************************************************)
EXTENDS Integers, Sequences, FiniteSets, TLC

\* ---------------------------------------------------------------- bounds
\* largest remote library, in items
MaxItems == 5
\* page size of the listing request (the code asks for 50; scaled down)
PageSize == 2

\* ----------------------------------------------------------- the universe
\* item.filename values the remote service can return, as path components
Filenames == { <<"a.jpg">>, <<"album", "b.jpg">> }
\* names a file can have in the media directory before the run
LocalNames == { "a.jpg", "c.jpg", "d.jpg" }
\* content of a file that was in the directory before the run
OldBytes == 0

VARIABLES
    pc,            \* position of the run inside sync()
    library,       \* the remote library: sequence of filenames, item i has id i
    dirExists,     \* fs.existsSync(config.mediaDir)
    dir,           \* the media directory: file name -> content
    nextPageToken, \* fetchMediaItems: cursor, 0 is null, k is the token of page k
    mediaItems,    \* fetchMediaItems accumulator, then downloadMedia's argument
    failedPage,    \* 0, or the page whose request was the first to fail
    localFiles,    \* downloadMedia: snapshot of readdirSync
    pending,       \* part of localFiles the Phase 1 loop has not visited yet
    idx,           \* index of the Phase 2 loop in mediaItems
    stats,         \* downloadMedia: MediaStats
    delLog,        \* console lines of Phase 1: name -> "deleted" | "error"
    results,       \* console lines of Phase 2, one per processed item
    dir0,          \* the media directory as it was when the pass started
    prev,          \* statistics the previous pass over this inventory returned
    summary,       \* the statistics displaySummary printed last, if any
    request,       \* the HTTP request in flight, if any
    received,      \* fetchMediaItems: the listing pages received, in order
    noToken,       \* some request for a token has returned no usable token
    created        \* downloadMedia has called mkdirSync

vars == << pc, library, dirExists, dir, nextPageToken, mediaItems, failedPage,
           localFiles, pending, idx, stats, delLog, results, dir0, prev,
           summary, request, received, noToken, created >>

\* ------------------------------------------------------- pure functions
\* path.basename(item.filename): the last path component
basename(filename) == filename[Len(filename)]

\* the remote item with id i (interface MediaItem; baseUrl identifies the bytes)
MediaItem(i) == [ id |-> i, filename |-> library[i], baseUrl |-> i ]

Min(a, b) == IF a < b THEN a ELSE b

\* number of listing pages the service serves for the library
NumPages == IF Len(library) = 0 THEN 1
            ELSE (Len(library) + PageSize - 1) \div PageSize

\* data.mediaItems of listing page k (GooglePhotosResponse)
PageItems(k) ==
    [ j \in 1 .. (Min(k * PageSize, Len(library)) - (k - 1) * PageSize)
        |-> MediaItem((k - 1) * PageSize + j) ]

\* data.nextPageToken of listing page k, 0 when the field is absent
PageToken(k) == IF k * PageSize < Len(library) THEN k + 1 ELSE 0

\* the page a request with cursor t asks for: no pageToken means the first
PageOf(t) == IF t = 0 THEN 1 ELSE t

\* a push that replaces the accumulator by the newest page
pushReplacing(acc, items) == items

\* mediaItems.push(...data.mediaItems)
push(acc, items) == acc \o items

\* new Set(mediaItems.map((item) => path.basename(item.filename)))
googlePhotosFiles ==
    { basename(mediaItems[i].filename) : i \in 1 .. Len(mediaItems) }

\* the membership test with its negation lost
IsOrphanInverted(localFile) == localFile \in googlePhotosFiles

\* a prune that clears the directory whatever the inventory says
IsOrphanAlways(localFile) == TRUE

\* !googlePhotosFiles.has(localFile)
IsOrphan(localFile) == localFile \notin googlePhotosFiles

\* an existence check that never finds the file
existsSyncNever(imageName) == FALSE

\* fs.existsSync(path.join(mediaDir, imageName))
existsSync(imageName) == imageName \in DOMAIN dir

\* an unlink that reports success and removes nothing
unlinkSyncNothing(d, name) == d

\* fs.unlinkSync(localPath)
unlinkSync(d, name) == [ n \in DOMAIN d \ {name} |-> d[n] ]

\* fs.writeFileSync(imagePath, bytes)
writeFileSync(d, name, bytes) ==
    [ n \in DOMAIN d \cup {name} |-> IF n = name THEN bytes ELSE d[n] ]

\* an increment that counts twice
IncTwice(s, counter) == [ s EXCEPT ![counter] = @ + 2 ]

\* an increment that loses the errors counter
IncLosingErrors(s, counter) ==
    IF counter = "errors" THEN s ELSE [ s EXCEPT ![counter] = @ + 1 ]

\* stats.<counter>++
Inc(s, counter) == [ s EXCEPT ![counter] = @ + 1 ]

ZeroStats == [ downloaded |-> 0, skipped |-> 0, deleted |-> 0, errors |-> 0 ]

\* sequences over S of length at most n
SeqUpTo(S, n) == UNION { [ 1 .. k -> S ] : k \in 0 .. n }

\* -------------------------------------------------------------- initial
Init ==
    /\ pc = "auth"
    /\ library \in SeqUpTo(Filenames, MaxItems)
    /\ dirExists \in BOOLEAN
    /\ dir \in UNION { [ D -> {OldBytes} ] : D \in SUBSET LocalNames }
    /\ (~dirExists => DOMAIN dir = {})
    /\ nextPageToken = 0
    /\ mediaItems = << >>
    /\ failedPage = 0
    /\ localFiles = {}
    /\ pending = {}
    /\ idx = 0
    /\ stats = ZeroStats
    /\ delLog = << >>
    /\ results = << >>
    /\ dir0 = dir
    /\ prev = << >>
    /\ summary = << >>
    /\ request = << >>
    /\ received = << >>
    /\ noToken = FALSE
    /\ created = FALSE

\* ------------------------------------------------------------- sync()
\* lines 284-288: refreshAccessToken / getAccessToken; a throw ends the run
Authenticate ==
    /\ pc = "auth"
    /\ \E ok \in BOOLEAN :
          /\ pc' = IF ok THEN "request" ELSE "aborted"
          /\ noToken' = ~ok
    /\ UNCHANGED << library, dirExists, dir, nextPageToken, mediaItems,
                    failedPage, localFiles, pending, idx, stats, delLog,
                    results, dir0, prev, summary, request, received,
                    created >>

\* ---------------------------------------------------- fetchMediaItems
\* line 183: } while (nextPageToken);  then line 186: return mediaItems
LoopOrReturn(t) == IF t # 0 THEN "request" ELSE "fetched"

\* a loop that has pushed the page's items before the failure is thrown
CatchPageErrorAfterPush ==
    /\ failedPage' = IF failedPage = 0 THEN PageOf(nextPageToken)
                     ELSE failedPage
    /\ pc' = LoopOrReturn(nextPageToken)
    /\ request' = << >>
    /\ mediaItems' = push(mediaItems, PageItems(PageOf(nextPageToken)))
    /\ UNCHANGED << nextPageToken, received >>

\* lines 176-182: the catch of one iteration logs and falls to the loop test;
\* neither mediaItems nor nextPageToken was assigned
CatchPageError ==
    /\ failedPage' = IF failedPage = 0 THEN PageOf(nextPageToken)
                     ELSE failedPage
    /\ pc' = LoopOrReturn(nextPageToken)
    /\ request' = << >>
    /\ UNCHANGED << nextPageToken, mediaItems, received >>

\* a listing request that never sets the pageToken parameter
ListRequestWithoutCursor(t) ==
    [ endpoint |-> "mediaItems", pageToken |-> 0,
      headers |-> { "Authorization" } ]

\* lines 143-150 and 157-162: the listing request for cursor t, 0 being null
ListRequest(t) ==
    [ endpoint |-> "mediaItems", pageToken |-> t,
      headers |-> { "Authorization" } ]

\* lines 249 and 253: fetch(imageUrl), a request without options
DownloadRequest(item) ==
    [ endpoint |-> "download", pageToken |-> 0, headers |-> { } ]

\* lines 142-162: build the url, ask for a token, issue the listing request
RequestPage ==
    /\ pc = "request"
    /\ \E token \in BOOLEAN :
          IF token
          THEN /\ pc' = "await"
               /\ request' = << ListRequest(nextPageToken) >>
               /\ UNCHANGED << nextPageToken, mediaItems, failedPage,
                               received, noToken >>
          ELSE /\ CatchPageError
               /\ noToken' = TRUE
    /\ UNCHANGED << library, dirExists, dir, localFiles, pending, idx, stats,
                    delLog, results, dir0, prev, summary, created >>

\* lines 164-175: the response of the listing request
ReceivePage ==
    /\ pc = "await"
    /\ \E outcome \in { "ok", "http", "body" } :
          IF outcome = "ok"
          THEN LET k == PageOf(request[1].pageToken) IN
               /\ mediaItems' = IF Len(PageItems(k)) > 0
                                THEN push(mediaItems, PageItems(k))
                                ELSE mediaItems
               /\ nextPageToken' = PageToken(k)
               /\ pc' = LoopOrReturn(PageToken(k))
               /\ received' = Append(received, k)
               /\ request' = << >>
               /\ UNCHANGED failedPage
          ELSE CatchPageError
    /\ UNCHANGED << library, dirExists, dir, localFiles, pending, idx, stats,
                    delLog, results, dir0, prev, summary, noToken, created >>

\* ------------------------------------------------------ downloadMedia
\* a pass that starts Phase 2 while snapshot names are still unvisited
AfterPruneEarly(p, n) == IF n > 0 THEN "items" ELSE IF p # {} THEN "prune"
                         ELSE "returned"

\* position after the Phase 1 loop has p names left and Phase 2 starts at i
AfterPrune(p, n) == IF p # {} THEN "prune" ELSE IF n > 0 THEN "items"
                    ELSE "returned"

AfterItem(i, n) == IF i <= n THEN "items" ELSE "returned"

\* a pass that goes on without creating the directory
mkdirNever(exists) == exists

\* lines 205-207: whether the directory exists after
\* if (!fs.existsSync(mediaDir)) fs.mkdirSync(mediaDir, { recursive: true })
mkdirIfAbsent(exists) == IF ~exists THEN TRUE ELSE exists

\* lines 198-215: fresh statistics, mkdirSync when absent, readdirSync
StartPass ==
    /\ pc = "fetched"
    /\ stats' = ZeroStats
    /\ dirExists' = mkdirIfAbsent(dirExists)
    /\ created' = (created \/ ~dirExists)
    /\ localFiles' = DOMAIN dir
    /\ pending' = DOMAIN dir
    /\ dir0' = dir
    /\ idx' = 1
    /\ delLog' = << >>
    /\ results' = << >>
    /\ pc' = AfterPrune(DOMAIN dir, Len(mediaItems))
    /\ UNCHANGED << library, dir, nextPageToken, mediaItems, failedPage,
                    prev, summary, request, received, noToken >>

\* lines 218-238: one iteration of the Phase 1 loop
Prune ==
    /\ pc = "prune"
    /\ \E localFile \in pending :
          /\ pending' = pending \ {localFile}
          /\ pc' = AfterPrune(pending \ {localFile}, Len(mediaItems))
          /\ IF IsOrphan(localFile)
             THEN \E unlinked \in BOOLEAN :
                     IF unlinked
                     THEN /\ dir' = unlinkSync(dir, localFile)
                          /\ stats' = Inc(stats, "deleted")
                          /\ delLog' = (localFile :> "deleted") @@ delLog
                     ELSE /\ stats' = Inc(stats, "errors")
                          /\ delLog' = (localFile :> "error") @@ delLog
                          /\ UNCHANGED dir
             ELSE UNCHANGED << dir, stats, delLog >>
    /\ UNCHANGED << library, dirExists, nextPageToken, mediaItems, failedPage,
                    localFiles, idx, results, dir0, prev,
                    summary, request, received, noToken, created >>

\* lines 241-253: the existence check of one item, then the download request
CheckItem ==
    /\ pc = "items"
    /\ LET imageName == basename(mediaItems[idx].filename) IN
          IF existsSync(imageName)
          THEN /\ stats' = Inc(stats, "skipped")
               /\ results' = Append(results, "skipped")
               /\ idx' = idx + 1
               /\ pc' = AfterItem(idx + 1, Len(mediaItems))
               /\ UNCHANGED request
          ELSE /\ pc' = "fetching"
               /\ request' = << DownloadRequest(mediaItems[idx]) >>
               /\ UNCHANGED << stats, results, idx >>
    /\ UNCHANGED << library, dirExists, dir, nextPageToken, mediaItems,
                    failedPage, localFiles, pending, delLog, dir0, prev,
                    summary, received, noToken, created >>

\* bytes a download of item delivers; a write that fails can leave a
\* truncated file behind
Bytes(item) == item.baseUrl
Truncated(item) == 0 - item.baseUrl

\* lines 262-264: the console line of a failed download; the message tells
\* a failed request ("network", "http") from a failed write
ErrorLine(outcome) == IF outcome \in { "network", "http" }
                      THEN "request failed" ELSE "write failed"

\* lines 253-266: the download response, the write, and the catch
Download ==
    /\ pc = "fetching"
    /\ LET item == mediaItems[idx]
           imageName == basename(item.filename) IN
       \E outcome \in { "saved", "network", "http", "write", "partial" } :
          /\ IF outcome = "saved"
             THEN /\ dir' = writeFileSync(dir, imageName, Bytes(item))
                  /\ stats' = Inc(stats, "downloaded")
                  /\ results' = Append(results, "downloaded")
             ELSE /\ dir' = IF outcome = "partial"
                            THEN writeFileSync(dir, imageName, Truncated(item))
                            ELSE dir
                  /\ stats' = Inc(stats, "errors")
                  /\ results' = Append(results, ErrorLine(outcome))
          /\ idx' = idx + 1
          /\ pc' = AfterItem(idx + 1, Len(mediaItems))
    /\ request' = << >>
    /\ UNCHANGED << library, dirExists, nextPageToken, mediaItems, failedPage,
                    localFiles, pending, delLog, dir0, prev,
                    summary, received, noToken, created >>

\* lines 272-281 and 291: displaySummary(stats)
DisplaySummary ==
    /\ pc = "returned"
    /\ summary' = << stats >>
    /\ pc' = "done"
    /\ UNCHANGED << library, dirExists, dir, nextPageToken, mediaItems,
                    failedPage, localFiles, pending, idx, stats, delLog,
                    results, dir0, prev, request, received, noToken,
                    created >>

\* line 290 again: downloadMedia(mediaItems) on the same inventory and on the
\* directory the previous pass left
Rerun ==
    /\ pc = "done"
    /\ prev' = << stats >>
    /\ pc' = "fetched"
    /\ UNCHANGED << library, dirExists, dir, nextPageToken, mediaItems,
                    failedPage, localFiles, pending, idx, stats, delLog,
                    results, dir0, summary, request, received, noToken,
                    created >>

Next ==
    \/ Authenticate
    \/ RequestPage
    \/ ReceivePage
    \/ StartPass
    \/ Prune
    \/ CheckItem
    \/ Download
    \/ DisplaySummary

\* one run of sync()
Spec == Init /\ [][Next]_vars

\* fetchMediaItems has returned the whole library without a failure
InitPass ==
    /\ pc = "fetched"
    /\ library \in SeqUpTo(Filenames, MaxItems)
    /\ dirExists \in BOOLEAN
    /\ dir \in UNION { [ D -> {OldBytes} ] : D \in SUBSET LocalNames }
    /\ (~dirExists => DOMAIN dir = {})
    /\ nextPageToken = 0
    /\ mediaItems = [ i \in 1 .. Len(library) |-> MediaItem(i) ]
    /\ failedPage = 0
    /\ localFiles = {}
    /\ pending = {}
    /\ idx = 0
    /\ stats = ZeroStats
    /\ delLog = << >>
    /\ results = << >>
    /\ dir0 = dir
    /\ prev = << >>
    /\ summary = << >>
    /\ request = << >>
    /\ received = [ k \in 1 .. NumPages |-> k ]
    /\ noToken = FALSE
    /\ created = FALSE

\* downloadMedia on an inventory, followed by any number of further passes
\* over the same inventory
NextRerun ==
    \/ StartPass
    \/ Prune
    \/ CheckItem
    \/ Download
    \/ DisplaySummary
    \/ Rerun

RerunSpec == InitPass /\ [][NextRerun]_vars

\* the run is never stopped between two steps of the code
FairSpec == Spec /\ WF_vars(Next)

TypeOK ==
    /\ pc \in { "auth", "aborted", "request", "await", "fetched", "prune",
                "items", "fetching", "returned", "done" }
    /\ nextPageToken \in 0 .. NumPages
    /\ failedPage \in 0 .. NumPages
    /\ Len(mediaItems) <= Len(library)
    /\ pending \subseteq localFiles
    /\ Len(prev) <= 1
    /\ DOMAIN dir0 = localFiles \/ pc \in { "auth", "aborted", "request", "await", "fetched" }

\* ------------------------------------------------------------ helpers
\* the whole remote library as items, in the order the service lists it
RemoteInventory == [ i \in 1 .. Len(library) |-> MediaItem(i) ]

\* base names of the inventory handed to downloadMedia
RemoteNames == { mediaItems[i].filename[Len(mediaItems[i].filename)] :
                    i \in 1 .. Len(mediaItems) }

NameOf(i) == mediaItems[i].filename[Len(mediaItems[i].filename)]

\* downloadMedia has returned its statistics
Returned == pc \in { "returned", "done" }

\* fetchMediaItems has returned its inventory
Fetched == pc \in { "fetched", "prune", "items", "fetching", "returned",
                    "done" }

\* Phase 2 of downloadMedia has begun or is over
InPhase2 == pc \in { "items", "fetching", "returned", "done" }

DistinctNames ==
    \A i, j \in 1 .. Len(mediaItems) : NameOf(i) = NameOf(j) => i = j

\* number of Phase 2 console lines of kind r
Count(r) == Cardinality({ i \in 1 .. Len(results) : results[i] = r })

\* number of items whose download or write failed
FailedDownloads == Count("request failed") + Count("write failed")

\* names whose deletion Phase 1 attempted with outcome r
Deletions(r) == { n \in DOMAIN delLog : delLog[n] = r }

RECURSIVE PagesUpTo(_)
\* concatenation of the listing pages 1 .. k
PagesUpTo(k) == IF k = 0 THEN << >> ELSE PagesUpTo(k - 1) \o PageItems(k)

\* --------------------------------------------------------------- claims

\* C1: after a pass of downloadMedia in which no deletion and no download
\* failed, the file names in the media directory are exactly the base
\* names of the inventory items.
C1_DirectoryMatchesRemote ==
    (Returned /\ stats.errors = 0) => DOMAIN dir = RemoteNames

C1_Witness ==
    /\ pc = "returned"
    /\ stats.errors = 0
    /\ stats.deleted > 0
    /\ stats.downloaded > 0
    /\ stats.skipped > 0

\* C2 (as claimed): once a listing request has failed no further listing
\* request is issued, and fetchMediaItems returns the pages received before
\* the failed one.
C2_NoRetryAfterFailure ==
    /\ (failedPage # 0 => pc # "await")
    /\ (Fetched /\ failedPage # 0 => mediaItems = PagesUpTo(failedPage - 1))

\* C3 (as claimed): once authentication has succeeded the run eventually
\* displays the summary, whatever fails afterwards.
C3_SummaryAlwaysShown == (pc = "request") ~> (Len(summary) > 0)

\* C4: when no listing request failed, fetchMediaItems returns the
\* concatenation of all pages, in page order and within-page order.
C4_PaginationComplete ==
    (Fetched /\ failedPage = 0) =>
        /\ mediaItems = PagesUpTo(NumPages)
        /\ mediaItems = RemoteInventory

C4_Witness ==
    /\ pc = "fetched"
    /\ failedPage = 0
    /\ NumPages >= 3
    /\ Len(mediaItems) % PageSize # 0

\* C5: Phase 1 attempts to delete a name if and only if it is in the
\* snapshot and is not the base name of an inventory item, and during a pass
\* a file whose name is the base name of an inventory item is never removed.
C5_NoOverDeletion ==
    /\ [](DOMAIN delLog \subseteq localFiles \ RemoteNames)
    /\ [](InPhase2 => DOMAIN delLog = localFiles \ RemoteNames)
    /\ [][ \A n \in RemoteNames :
              (Fetched /\ n \in DOMAIN dir) => n \in DOMAIN dir' ]_vars

C5_Witness ==
    /\ pc = "items"
    /\ DOMAIN delLog # {}
    /\ localFiles \cap RemoteNames # {}
    /\ localFiles \cap RemoteNames \subseteq DOMAIN dir

\* C6 (as claimed): after downloadMedia returns, no snapshot name that is not
\* the base name of an inventory item exists locally.
C6_PruneComplete ==
    Returned => (localFiles \ RemoteNames) \cap DOMAIN dir = {}

\* C6 (amended): after downloadMedia returns, a snapshot name that is not the
\* base name of an inventory item exists locally exactly when its deletion
\* failed; that failure is one of the counted errors.
C6_PruneCompleteUnlessFailed ==
    Returned =>
        /\ \A n \in localFiles \ RemoteNames :
              n \in DOMAIN dir <=> (n \in DOMAIN delLog /\ delLog[n] = "error")
        /\ stats.errors >= Cardinality(Deletions("error"))

C6_Witness ==
    /\ pc = "returned"
    /\ Deletions("error") # {}
    /\ Deletions("deleted") # {}
    /\ Deletions("deleted") \cap DOMAIN dir = {}

\* C7: with distinct base names, when downloads or deletions fail every item
\* is still processed and counted once, every orphan deletion is still
\* attempted, errors is the number of failed operations, and the other
\* items are saved or skipped as if nothing had failed.
C7_FailureIsolation ==
    (Returned /\ DistinctNames) =>
        /\ Len(results) = Len(mediaItems)
        /\ DOMAIN delLog = localFiles \ RemoteNames
        /\ stats.errors = FailedDownloads + Cardinality(Deletions("error"))
        /\ stats.downloaded = Count("downloaded")
        /\ stats.skipped = Count("skipped")
        /\ stats.deleted = Cardinality(Deletions("deleted"))
        /\ \A i \in 1 .. Len(results) :
              /\ results[i] = "downloaded" =>
                    (NameOf(i) \in DOMAIN dir /\ dir[NameOf(i)] = Bytes(mediaItems[i]))
              /\ results[i] = "skipped" => NameOf(i) \in localFiles

C7_Witness ==
    /\ pc = "returned"
    /\ DistinctNames
    /\ Len(mediaItems) = 2
    /\ results = << "request failed", "downloaded" >>
    /\ stats.errors = 2
    /\ stats.downloaded = 1
    /\ Cardinality(Deletions("error")) = 1
    /\ Cardinality(Deletions("deleted")) = 1

\* C8: when a pass over an inventory with distinct base names ended with
\* errors = 0, the next pass over the same inventory downloads, deletes and
\* fails nothing, skips every item and leaves the directory as it was.
C8_Idempotence ==
    (Returned /\ Len(prev) = 1 /\ prev[1].errors = 0 /\ DistinctNames) =>
        /\ stats = [ downloaded |-> 0, skipped |-> Len(mediaItems),
                     deleted |-> 0, errors |-> 0 ]
        /\ dir = dir0

C8_Witness ==
    /\ pc = "returned"
    /\ Len(prev) = 1
    /\ DistinctNames
    /\ prev[1].errors = 0
    /\ prev[1].downloaded > 0
    /\ prev[1].deleted > 0
    /\ stats.skipped = 2

\* pairs of inventory positions x < y whose items share a base name
Collisions ==
    { p \in (1 .. Len(mediaItems)) \X (1 .. Len(mediaItems)) :
         p[1] < p[2] /\ NameOf(p[1]) = NameOf(p[2]) }

\* x is the first inventory position with its base name
FirstOfName(x) == \A i \in 1 .. (x - 1) : NameOf(i) # NameOf(x)

C10_LastWriteWins ==
    Returned =>
        \A p \in Collisions :
            NameOf(p[2]) \in DOMAIN dir =>
                dir[NameOf(p[2])] = Bytes(mediaItems[p[2]])

\* C10 (amended): when two items share a base name, after a pass without
\* errors the file of that name holds the bytes it had before the pass if it
\* was in the snapshot, and otherwise the bytes of the earliest item of that
\* name, never those of a later one.
C10_FirstWriteWins ==
    (Returned /\ stats.errors = 0) =>
        \A p \in Collisions :
            /\ NameOf(p[2]) \in DOMAIN dir
            /\ NameOf(p[2]) \in localFiles =>
                  dir[NameOf(p[2])] = dir0[NameOf(p[2])]
            /\ NameOf(p[2]) \notin localFiles =>
                  dir[NameOf(p[2])] # Bytes(mediaItems[p[2]])
            /\ (NameOf(p[2]) \notin localFiles /\ FirstOfName(p[1])) =>
                  dir[NameOf(p[2])] = Bytes(mediaItems[p[1]])

C10_Witness ==
    /\ pc = "returned"
    /\ stats.errors = 0
    /\ \E p \in Collisions :
          /\ NameOf(p[1]) \notin localFiles
          /\ dir[NameOf(p[1])] = Bytes(mediaItems[p[1]])
    /\ \E p \in Collisions :
          /\ NameOf(p[1]) \in localFiles
          /\ dir[NameOf(p[1])] = OldBytes

\* C11 (as claimed): whenever a token request has returned no usable token,
\* in sync() or before a listing request, the run is aborted and the media
\* directory is as it was before the run.
C11_NoTokenAbortsRun == noToken => (pc = "aborted" /\ dir = dir0)

\* C12 (as claimed): every request in flight, to the listing endpoint or to
\* a download URL, carries the Authorization header.
C12_RequestsCarryBearer ==
    \A i \in 1 .. Len(request) : "Authorization" \in request[i].headers

\* downloadMedia has taken its snapshot and not yet handed over to the caller
InPass == pc \in { "prune", "items", "fetching", "returned" }

\* C13: when the media directory does not exist as downloadMedia starts, the
\* pass creates it in the step that takes the snapshot, the snapshot is
\* empty, the pass goes on, and every download request and every file write
\* happens with the directory in place.
C13_DirectoryCreatedFirst ==
    /\ [](InPass => dirExists)
    /\ []((InPass /\ created) => localFiles = {})
    /\ [](Len(request) > 0 /\ request[1].endpoint = "download" => dirExists)
    /\ [][ (pc = "fetched" /\ ~dirExists) =>
              (dirExists' /\ created' /\ InPass') ]_vars
    /\ [][ dir' # dir => dirExists ]_vars

C13_Witness ==
    /\ pc = "returned"
    /\ created
    /\ localFiles = {}
    /\ stats.downloaded > 0
    /\ DOMAIN dir # {}

\* Phase 2 of the current pass is running
Phase2Running == pc \in { "items", "fetching" }

\* C14: within a pass every deletion attempt precedes the first existence
\* check, download request and file write of Phase 2: while Phase 1 runs no
\* item has been processed and nothing is written, and once Phase 2 runs no
\* snapshot name is left to visit and nothing is deleted any more.
C14_PruneBeforeFetch ==
    /\ [](Phase2Running => pending = {})
    /\ [](pc = "prune" => (results = << >> /\ idx = 1 /\ request = << >>))
    /\ [][ pc = "prune" =>
              \A n \in DOMAIN dir' : n \in DOMAIN dir /\ dir'[n] = dir[n] ]_vars
    /\ [][ Phase2Running =>
              /\ delLog' = delLog
              /\ stats'.deleted = stats.deleted
              /\ DOMAIN dir \subseteq DOMAIN dir' ]_vars

C14_Witness ==
    /\ pc = "fetching"
    /\ idx = 2
    /\ Cardinality(DOMAIN delLog) >= 2
    /\ stats.deleted >= 1

\* continuation token of the page received last, 0 when there is none
LastToken == IF received = << >> THEN 0
             ELSE PageToken(received[Len(received)])

\* C15: the first listing request carries no pageToken, every later one
\* carries the continuation token of the page received last, and after a
\* received page without continuation token no listing request is prepared
\* or issued.
C15_CursorProtocol ==
    /\ (pc = "await" => (/\ Len(request) = 1
                         /\ request[1].endpoint = "mediaItems"
                         /\ request[1].pageToken = LastToken))
    /\ ((pc = "await" /\ received = << >>) => request[1].pageToken = 0)
    /\ ((pc \in { "request", "await" } /\ received # << >>) => LastToken # 0)

C15_Witness ==
    /\ pc = "await"
    /\ received = << 1, 2 >>
    /\ failedPage = 2
    /\ request[1].pageToken = 3

\* C16: a file is written only under the name of the item being processed
\* and only when no file of that name exists; a file of the snapshot whose
\* name is the base name of an inventory item is there, with its content
\* unchanged, at every point of the pass and after it; and processing an item
\* whose file exists changes the skipped counter and nothing else.
C16_NoOverwrite ==
    /\ []((InPass \/ pc = "done") =>
            \A n \in localFiles \cap RemoteNames :
                n \in DOMAIN dir /\ dir[n] = dir0[n])
    /\ [][ (Phase2Running /\ dir' # dir) =>
              /\ pc = "fetching"
              /\ NameOf(idx) \notin DOMAIN dir
              /\ \A n \in DOMAIN dir : n \in DOMAIN dir' /\ dir'[n] = dir[n]
              /\ DOMAIN dir' = DOMAIN dir \cup { NameOf(idx) } ]_vars
    /\ [][ (pc = "items" /\ NameOf(idx) \in DOMAIN dir) =>
              /\ dir' = dir
              /\ stats' = [ stats EXCEPT !.skipped = @ + 1 ]
              /\ delLog' = delLog
              /\ request' = request
              /\ mediaItems' = mediaItems ]_vars

C16_Witness ==
    /\ pc = "returned"
    /\ stats.skipped > 0
    /\ stats.downloaded > 0
    /\ stats.deleted > 0
    /\ \E n \in localFiles \cap RemoteNames : dir[n] = OldBytes

Counters == { "downloaded", "skipped", "deleted", "errors" }

\* sum of the four counters
Total(s) == s.downloaded + s.skipped + s.deleted + s.errors

\* number of snapshot names and inventory items the pass has processed
Processed == Cardinality(DOMAIN delLog) + Len(results)

\* C17: when downloadMedia returns, downloaded + skipped + failed downloads
\* is the number of inventory items, deleted + failed deletions is the number
\* of snapshot names that are no remote base name, and errors is the number
\* of failed deletions and downloads; during the pass the counters sum to the
\* number of processed names and items, a step adds at most 1 to one counter,
\* and no counter decreases.
C17_StatsAccounting ==
    /\ [](Returned =>
            /\ stats.downloaded + stats.skipped + FailedDownloads
                  = Len(mediaItems)
            /\ stats.deleted + Cardinality(Deletions("error"))
                  = Cardinality(localFiles \ RemoteNames)
            /\ stats.errors
                  = Cardinality(Deletions("error")) + FailedDownloads)
    /\ []((InPass \/ pc = "done") => Total(stats) = Processed)
    /\ [][ /\ \A c \in Counters : stats'[c] >= stats[c]
           /\ Total(stats') - Total(stats) \in { 0, 1 } ]_vars

C17_Witness ==
    /\ pc = "returned"
    /\ stats.downloaded > 0
    /\ stats.skipped > 0
    /\ stats.deleted > 0
    /\ stats.errors >= 2
    /\ Deletions("error") # {}
    /\ FailedDownloads > 0

\* C18: when the first listing request fails, fetchMediaItems returns at
\* once with an empty inventory, sync() goes on to downloadMedia and the
\* summary, no item is downloaded or skipped, and Phase 1 attempts to delete
\* every file of the snapshot, whatever the remote library holds.
C18_FailOpenPrune ==
    /\ [](failedPage = 1 =>
            /\ Fetched
            /\ mediaItems = << >>
            /\ received = << >>
            /\ results = << >>)
    /\ []((failedPage = 1 /\ Returned) =>
            /\ stats.downloaded = 0
            /\ stats.skipped = 0
            /\ stats.deleted + stats.errors = Cardinality(localFiles)
            /\ DOMAIN delLog = localFiles
            /\ DOMAIN dir = Deletions("error"))
    /\ ((failedPage = 1) ~> (Len(summary) = 1))

C18_Witness ==
    /\ pc = "returned"
    /\ failedPage = 1
    /\ "a.jpg" \in localFiles
    /\ "a.jpg" \notin DOMAIN dir
    /\ \E i \in 1 .. Len(library) : basename(library[i]) = "a.jpg"
    /\ stats.deleted >= 2
    /\ stats.errors = 1

RECURSIVE PagesOf(_)
\* concatenation of the items of the listing pages ps, in the order of ps
PagesOf(ps) == IF ps = << >> THEN << >>
               ELSE PagesOf(SubSeq(ps, 1, Len(ps) - 1)) \o PageItems(ps[Len(ps)])

\* C20: the accumulator holds the items of the received pages and nothing
\* else, no page and no item twice, also after re-requests; the accumulator
\* and the cursor change only in the step that receives a page, together;
\* and a failed attempt changes neither.
C20_NoDuplicateAccumulation ==
    /\ [](mediaItems = PagesOf(received))
    /\ [](\A i, j \in 1 .. Len(received) : received[i] = received[j] => i = j)
    /\ [](\A i, j \in 1 .. Len(mediaItems) :
              mediaItems[i].id = mediaItems[j].id => i = j)
    /\ [][ (pc \in { "request", "await" } /\ received' = received) =>
              (mediaItems' = mediaItems /\ nextPageToken' = nextPageToken) ]_vars
    /\ [][ (mediaItems' # mediaItems \/ nextPageToken' # nextPageToken) =>
              /\ pc = "await"
              /\ Len(received') = Len(received) + 1
              /\ nextPageToken' = PageToken(received'[Len(received')]) ]_vars

C20_Witness ==
    /\ pc = "fetched"
    /\ failedPage = 2
    /\ received = << 1, 2, 3 >>
    /\ Len(mediaItems) = Len(library)

\* the download of item j wrote the file that lies under its name
WroteFile(j) ==
    /\ results[j] # "skipped"
    /\ NameOf(j) \in DOMAIN dir
    /\ dir[NameOf(j)] \in { Bytes(mediaItems[j]), Truncated(mediaItems[j]) }

\* a download whose request failed creates no file and changes only errors
RequestFailureFrame ==
    [][ (pc = "fetching" /\ results' = Append(results, "request failed")) =>
           /\ dir' = dir
           /\ stats' = [ stats EXCEPT !.errors = @ + 1 ]
           /\ delLog' = delLog ]_vars

\* C19 (as claimed): a download whose request failed creates no file and
\* changes only errors; its name is absent when the pass returns unless an
\* item of that name was downloaded; and a pass that follows another one
\* attempts to download exactly the items whose names were absent when it
\* started and skips the others.
C19_FailedDownloadsRetried ==
    /\ RequestFailureFrame
    /\ [](Returned =>
            \A i \in 1 .. Len(results) :
               (/\ results[i] = "request failed"
                /\ \A j \in 1 .. Len(results) :
                      NameOf(j) = NameOf(i) => results[j] # "downloaded")
               => NameOf(i) \notin DOMAIN dir)
    /\ []((Returned /\ Len(prev) = 1) =>
            \A i \in 1 .. Len(results) :
               results[i] # "skipped" <=> NameOf(i) \notin DOMAIN dir0)

\* C19 (amended): a download whose request failed creates no file and
\* changes only errors; its name is absent when the pass returns unless a
\* later item of that name wrote a file, by a download or by a failed write
\* that left a truncated file; and a pass that follows another one skips
\* exactly the items whose name exists when their turn comes, that is, was
\* there when the pass started or was written by an earlier item of the pass,
\* and attempts to download the others.
C19_FailedDownloadsRetriedInTurn ==
    /\ RequestFailureFrame
    /\ [](Returned =>
            \A i \in 1 .. Len(results) :
               (results[i] = "request failed" /\ NameOf(i) \in DOMAIN dir) =>
                  \E j \in (i + 1) .. Len(results) :
                      NameOf(j) = NameOf(i) /\ WroteFile(j))
    /\ []((Returned /\ Len(prev) = 1) =>
            \A i \in 1 .. Len(results) :
               results[i] = "skipped" <=>
                  \/ NameOf(i) \in DOMAIN dir0
                  \/ \E j \in 1 .. (i - 1) :
                        NameOf(j) = NameOf(i) /\ WroteFile(j))
    /\ []((Returned /\ Len(prev) = 1 /\ DistinctNames) =>
            \A i \in 1 .. Len(results) :
               results[i] # "skipped" <=> NameOf(i) \notin DOMAIN dir0)

C19_Witness ==
    /\ pc = "returned"
    /\ Len(prev) = 1
    /\ prev[1].errors >= 2
    /\ Len(results) = 3
    /\ results[1] = "request failed"
    /\ NameOf(1) \notin DOMAIN dir
    /\ results[2] = "downloaded"
    /\ results[3] = "skipped"

====
